---- MODULE Spec2Model ----
(***************************************************************************)
(* A model of lib/index.js of dom-tools: the stylesheet injector           *)
(* loadStylesheetCSSInWebview (with the webview's registry attribute, the  *)
(* file read stream and the remote calls), the viewport check              *)
(* didScrollIntoViewport, and the deferred show / hide helpers.            *)
(***************************************************************************)
EXTENDS Integers, Sequences, FiniteSets

\* ------------------------------------------------------------------------
\* Bounds of the model
\* ------------------------------------------------------------------------

\* Calls of loadStylesheetCSSInWebview made on the webview in one behaviour.
MaxCalls == 2

\* 'data' events one read stream emits.
MaxChunks == 1

\* Elements of the list given to didScrollIntoViewport.
MaxElements == 10

\* The largest fixedCount given to didScrollIntoViewport.
MaxFixedCount == 10

\* How far the list is scrolled, and the largest clientHeight, in rows.
MaxScrollTop == 2
MaxClientHeight == 10

\* Calls of show / hide on the element, their largest delay, and the last
\* instant at which one is made.
MaxTimers == 2
MaxDelay == 2
MaxTime == 2

\* ------------------------------------------------------------------------
\* Characters.  Strings of the program are sequences of these.
\* ------------------------------------------------------------------------

LBRACKET == "["
RBRACKET == "]"
COMMA == ","
DQUOTE == "dquote"
BACKSLASH == "backslash"
APOSTROPHE == "apostrophe"
LF == "LF"

\* The stylesheet paths the callers pass: two plain ones and two with a
\* backslash (as in C:\new.css and C:\app.css).
Paths == { <<"a">>, <<"n">>, <<BACKSLASH, "n">>, <<BACKSLASH, "a">> }

\* ------------------------------------------------------------------------
\* JSON.stringify of an array of strings (line 247)
\* ------------------------------------------------------------------------

RECURSIVE EscapeJSON(_)
EscapeJSON(s) ==
    IF s = <<>> THEN <<>>
    ELSE LET ch == Head(s)
             esc == IF ch = DQUOTE THEN <<BACKSLASH, DQUOTE>>
                    ELSE IF ch = BACKSLASH THEN <<BACKSLASH, BACKSLASH>>
                    ELSE IF ch = LF THEN <<BACKSLASH, "n">>
                    ELSE <<ch>>
         IN  esc \o EscapeJSON(Tail(s))

RECURSIVE JoinQuoted(_)
JoinQuoted(list) ==
    IF list = <<>> THEN <<>>
    ELSE <<DQUOTE>> \o EscapeJSON(Head(list)) \o <<DQUOTE>>
         \o (IF Len(list) > 1 THEN <<COMMA>> ELSE <<>>)
         \o JoinQuoted(Tail(list))

JSONstringify(list) == <<LBRACKET>> \o JoinQuoted(list) \o <<RBRACKET>>

\* ------------------------------------------------------------------------
\* The value of the single-quoted JavaScript string literal '<text>' that
\* line 247 builds by interpolation: an apostrophe or a raw line feed in the
\* text ends the literal early (the script is then a syntax error), and a
\* backslash escapes the character after it.
\* ------------------------------------------------------------------------

ScriptError == [ok |-> FALSE, value |-> <<>>]

RECURSIVE SingleQuotedLiteral(_)
SingleQuotedLiteral(text) ==
    IF text = <<>> THEN [ok |-> TRUE, value |-> <<>>]
    ELSE IF Head(text) \in {APOSTROPHE, LF} THEN ScriptError
    ELSE IF Head(text) = BACKSLASH
         THEN IF Len(text) < 2 THEN ScriptError
              ELSE LET e == text[2]
                       rest == SingleQuotedLiteral(SubSeq(text, 3, Len(text)))
                       ch == IF e = "n" THEN <<LF>>
                             ELSE IF e = LF THEN <<>>
                             ELSE <<e>>
                   IN  IF rest.ok
                       THEN [ok |-> TRUE, value |-> ch \o rest.value]
                       ELSE ScriptError
    ELSE LET rest == SingleQuotedLiteral(Tail(text))
         IN  IF rest.ok
             THEN [ok |-> TRUE, value |-> <<Head(text)>> \o rest.value]
             ELSE ScriptError

\* The script of line 247: what the assignment stores in the attribute.
RegistryScript(list) == SingleQuotedLiteral(JSONstringify(list))

\* ------------------------------------------------------------------------
\* JSON.parse (line 183) of the attribute's text.  Every text the attribute
\* can hold starts with "[" and holds no white space outside strings, so the
\* grammar is the one of arrays of strings; any other text is a SyntaxError.
\* ------------------------------------------------------------------------

ParseError == [ok |-> FALSE, list |-> <<>>]

\* The string whose opening quote precedes s[i]: its value and the index
\* after its closing quote.
RECURSIVE ParseString(_, _, _)
ParseString(s, i, acc) ==
    IF i > Len(s) THEN [ok |-> FALSE, str |-> <<>>, next |-> i]
    ELSE IF s[i] = DQUOTE THEN [ok |-> TRUE, str |-> acc, next |-> i + 1]
    ELSE IF s[i] = LF THEN [ok |-> FALSE, str |-> <<>>, next |-> i]
    ELSE IF s[i] = BACKSLASH
         THEN IF i + 1 > Len(s) THEN [ok |-> FALSE, str |-> <<>>, next |-> i]
              ELSE IF s[i + 1] \in {DQUOTE, BACKSLASH}
                   THEN ParseString(s, i + 2, Append(acc, s[i + 1]))
              ELSE IF s[i + 1] = "n"
                   THEN ParseString(s, i + 2, Append(acc, LF))
              ELSE [ok |-> FALSE, str |-> <<>>, next |-> i]
    ELSE ParseString(s, i + 1, Append(acc, s[i]))

RECURSIVE ParseElements(_, _, _)
ParseElements(s, i, acc) ==
    IF i > Len(s) \/ s[i] # DQUOTE THEN ParseError
    ELSE LET r == ParseString(s, i + 1, <<>>)
         IN  IF ~r.ok \/ r.next > Len(s) THEN ParseError
             ELSE IF s[r.next] = COMMA
                  THEN ParseElements(s, r.next + 1, Append(acc, r.str))
             ELSE IF s[r.next] = RBRACKET /\ r.next = Len(s)
                  THEN [ok |-> TRUE, list |-> Append(acc, r.str)]
             ELSE ParseError

JSONparse(s) ==
    IF Len(s) < 2 \/ s[1] # LBRACKET THEN ParseError
    ELSE IF s = <<LBRACKET, RBRACKET>> THEN [ok |-> TRUE, list |-> <<>>]
    ELSE ParseElements(s, 2, <<>>)

\* Array.prototype.includes (line 197)
Includes(list, x) == \E i \in 1..Len(list) : list[i] = x

\* [ ...new Set(list) ] (line 244): the first occurrence of each element.
RECURSIVE Dedupe(_, _)
Dedupe(list, acc) ==
    IF list = <<>> THEN acc
    ELSE Dedupe(Tail(list),
                IF Includes(acc, Head(list)) THEN acc
                ELSE Append(acc, Head(list)))

\* os.EOL (line 231)
EOL == "EOL"

\* The JavaScript value undefined: the initial value of cssData (line 205)
\* and what reading an absent dataset attribute yields (line 177).  Line 181
\* treats it like the empty string.
Undefined == <<>>

\* String.prototype.trim (line 230); chunks hold no white space.
Trim(text) == text

\* (new cleanCSS()).minify(cssText).styles (line 232)
Minify(text) == <<"minified">> \o text

\* ------------------------------------------------------------------------
\* State
\* ------------------------------------------------------------------------

VARIABLES
    attr,          \* html.dataset.injectedstylesheets of the webview's page
    calls,         \* the calls of loadStylesheetCSSInWebview, in call order
    pageCSS,       \* per path, how many times its CSS was inserted in the page
    lastWriter,    \* the call whose registry write ran last (0: none yet)
    elementList,   \* didScrollIntoViewport: the top edge of each element
    threshold,     \* didScrollIntoViewport: threshold, in quarters
    fixedCount,    \* didScrollIntoViewport: fixedCount
    clientHeight,  \* document.documentElement.clientHeight
    targetIndex,   \* didScrollIntoViewport: targetIndex (line 317)
    scrollResult,  \* what didScrollIntoViewport returned ("pending" before)
    classList,     \* show / hide: the element's classList
    timers,        \* show / hide: the setTimeout calls made, in call order
    lastFired,     \* show / hide: the timer that fired last (0: none yet)
    now            \* show / hide: the event loop's clock

injectorVars == <<attr, calls, pageCSS, lastWriter>>
scrollVars ==
    <<elementList, threshold, fixedCount, clientHeight, targetIndex, scrollResult>>
visibilityVars == <<classList, timers, lastFired, now>>
vars == <<injectorVars, scrollVars, visibilityVars>>

\* ------------------------------------------------------------------------
\* loadStylesheetCSSInWebview: one record per call.  pc is the place the call
\* waits at: "reading" (the executeJavaScript of line 177 is pending),
\* "streaming" (the read stream is open), "errored" (the stream emitted
\* 'error' and has yet to emit 'close'), "inserting" (insertCSS is pending),
\* "writing" (the executeJavaScript of line 247 is pending), "done" (nothing
\* is pending), "crashed" (the 'close' listener threw).
\* ------------------------------------------------------------------------

\* callback(...) (lines 189, 199, 222, 250, 254, 259, 265): cb lists what the
\* caller's callback received, "ok" for (null, css) and the error otherwise.
Callback(call, outcome) == [call EXCEPT !.cb = Append(@, outcome)]

\* Lines 173-177: the call starts by asking the page for the registry.
NewCall(p, prior) ==
    [ path        |-> p,
      pc          |-> "reading",
      priorOk     |-> prior,      \* an earlier call for p had reported success
      read        |-> "pending",  \* "resolved" / "rejected" once it settled
      result      |-> Undefined,  \* what line 177 resolved with
      list        |-> <<>>,       \* stylesheetPathList
      cssData     |-> Undefined,
      styles      |-> <<>>,       \* cssText.styles
      cb          |-> <<>>,
      opened      |-> FALSE,      \* fs.createReadStream was called
      insertCalls |-> 0,          \* webviewElement.insertCSS was called
      insert      |-> "none",     \* "pending", then "resolved" / "rejected"
      script      |-> ScriptError,\* the value line 247's script assigns
      writeIssued |-> FALSE,      \* line 247 was reached
      write       |-> "none" ]    \* "resolved" / "rejected" once it settled

\* OnRegistryRead with the return of line 190 missing: an unparsable
\* registry is taken for an empty one.
OnRegistryRead_noReturn(call, result) ==
    LET parsed == JSONparse(result)
        read == [call EXCEPT !.read = "resolved", !.result = result]
    IN  IF result # Undefined /\ parsed.ok /\ Includes(parsed.list, call.path)
        THEN [Callback(read, "AlreadyInjected") EXCEPT !.pc = "done"]
        ELSE [(IF result # Undefined /\ ~parsed.ok
               THEN Callback(read, "SyntaxError") ELSE read)
                  EXCEPT !.list = parsed.list,
                         !.opened = TRUE,
                         !.pc = "streaming"]

\* Lines 178-223: the registry read resolved with `result`.
OnRegistryRead(call, result) ==
    LET parsed == JSONparse(result)
        read == [call EXCEPT !.read = "resolved", !.result = result]
    IN  IF result # Undefined /\ ~parsed.ok
        THEN [Callback(read, "SyntaxError") EXCEPT !.pc = "done"]
        ELSE IF result # Undefined /\ Includes(parsed.list, call.path)
        THEN [Callback(read, "AlreadyInjected") EXCEPT !.pc = "done"]
        ELSE [read EXCEPT !.list = IF result # Undefined THEN parsed.list
                                   ELSE <<>>,
                          !.opened = TRUE,
                          !.pc = "streaming"]

\* Lines 263-266: the registry read rejected.
OnReadRejected(call) ==
    [Callback(call, "RemoteExecutionError") EXCEPT !.read = "rejected",
                                                   !.pc = "done"]

\* Lines 211-215: cssData += chunk, on a cssData that starts undefined.
OnData(call) ==
    [call EXCEPT !.cssData = IF @ = Undefined THEN <<"undefined", "chunk">>
                             ELSE Append(@, "chunk")]

\* Lines 218-223: the 'error' listener; autoClose then destroys the stream,
\* which emits 'close'.
OnError(call) == [Callback(call, "ReadError") EXCEPT !.pc = "errored"]

\* Lines 226-238: the 'close' listener.  cssData.toString() throws a
\* TypeError when no chunk was read; otherwise the text is minified and
\* insertCSS is called, whether or not 'error' was emitted before.
OnClose(call) ==
    IF call.cssData = Undefined
    THEN [call EXCEPT !.pc = "crashed"]
    ELSE [call EXCEPT !.styles = Minify(Append(Trim(call.cssData), EOL)),
                      !.insertCalls = @ + 1,
                      !.insert = "pending",
                      !.pc = "inserting"]

\* OnInsertResolved with the list rebuilt from the new path alone.
OnInsertResolved_onlyNew(call) ==
    LET list == <<call.path>>
    IN  [call EXCEPT !.insert = "resolved",
                     !.list = list,
                     !.script = RegistryScript(list),
                     !.writeIssued = TRUE,
                     !.pc = "writing"]

\* Lines 239-247: insertCSS resolved; the path is added to the list read at
\* the start and the registry write is issued.
OnInsertResolved(call) ==
    LET list == Dedupe(Append(call.list, call.path), <<>>)
    IN  [call EXCEPT !.insert = "resolved",
                     !.list = list,
                     !.script = RegistryScript(list),
                     !.writeIssued = TRUE,
                     !.pc = "writing"]

\* Lines 257-260: insertCSS rejected.
OnInsertRejected(call) ==
    [Callback(call, "RemoteExecutionError") EXCEPT !.insert = "rejected",
                                                   !.pc = "done"]

\* Lines 248-251: the registry write resolved.
OnWriteResolved(call) ==
    [Callback(call, "ok") EXCEPT !.write = "resolved", !.pc = "done"]

\* OnWriteRejected with the error dropped: the callback of line 250.
OnWriteRejected_asSuccess(call) ==
    [Callback(call, "ok") EXCEPT !.write = "rejected", !.pc = "done"]

\* Lines 252-255: the registry write rejected.
OnWriteRejected(call) ==
    [Callback(call, "RemoteExecutionError") EXCEPT !.write = "rejected",
                                                   !.pc = "done"]

Chunks(call) == IF call.cssData = Undefined THEN 0 ELSE Len(call.cssData) - 1

Succeeded(call) == Includes(call.cb, "ok")

\* ------------------------------------------------------------------------
\* Actions of the injector
\* ------------------------------------------------------------------------

IdleScroll ==
    /\ elementList = <<>>
    /\ threshold = 0
    /\ fixedCount = 0
    /\ clientHeight = 0
    /\ targetIndex = 0
    /\ scrollResult = "pending"

IdleVisibility ==
    /\ classList = {}
    /\ timers = <<>>
    /\ lastFired = 0
    /\ now = 0

InitInjector ==
    /\ attr = Undefined
    /\ calls = <<>>
    /\ pageCSS = [p \in Paths |-> 0]
    /\ lastWriter = 0

Init == InitInjector /\ IdleScroll /\ IdleVisibility

\* A caller calls loadStylesheetCSSInWebview(webview, p, callback).
Start(p) ==
    /\ Len(calls) < MaxCalls
    /\ calls' = Append(calls,
                       NewCall(p, \E e \in 1..Len(calls) :
                                      calls[e].path = p /\ Succeeded(calls[e])))
    /\ UNCHANGED <<attr, pageCSS, lastWriter, scrollVars, visibilityVars>>

\* The page evaluates line 177's script and the promise resolves.
ReadResolved(c) ==
    /\ calls[c].pc = "reading"
    /\ calls' = [calls EXCEPT ![c] = OnRegistryRead(@, attr)]
    /\ UNCHANGED <<attr, pageCSS, lastWriter, scrollVars, visibilityVars>>

ReadRejected(c) ==
    /\ calls[c].pc = "reading"
    /\ calls' = [calls EXCEPT ![c] = OnReadRejected(@)]
    /\ UNCHANGED <<attr, pageCSS, lastWriter, scrollVars, visibilityVars>>

StreamData(c) ==
    /\ calls[c].pc = "streaming"
    /\ Chunks(calls[c]) < MaxChunks
    /\ calls' = [calls EXCEPT ![c] = OnData(@)]
    /\ UNCHANGED <<attr, pageCSS, lastWriter, scrollVars, visibilityVars>>

StreamError(c) ==
    /\ calls[c].pc = "streaming"
    /\ calls' = [calls EXCEPT ![c] = OnError(@)]
    /\ UNCHANGED <<attr, pageCSS, lastWriter, scrollVars, visibilityVars>>

StreamClose(c) ==
    /\ calls[c].pc \in {"streaming", "errored"}
    /\ calls' = [calls EXCEPT ![c] = OnClose(@)]
    /\ UNCHANGED <<attr, pageCSS, lastWriter, scrollVars, visibilityVars>>

\* The page inserts the CSS and the promise of line 238 resolves.
InsertResolved(c) ==
    /\ calls[c].pc = "inserting"
    /\ pageCSS' = [pageCSS EXCEPT ![calls[c].path] = @ + 1]
    /\ calls' = [calls EXCEPT ![c] = OnInsertResolved(@)]
    /\ UNCHANGED <<attr, lastWriter, scrollVars, visibilityVars>>

InsertRejected(c) ==
    /\ calls[c].pc = "inserting"
    /\ calls' = [calls EXCEPT ![c] = OnInsertRejected(@)]
    /\ UNCHANGED <<attr, pageCSS, lastWriter, scrollVars, visibilityVars>>

\* The page runs line 247's assignment and the promise resolves; a script
\* that does not parse can only reject.
WriteResolved(c) ==
    /\ calls[c].pc = "writing"
    /\ calls[c].script.ok
    /\ attr' = calls[c].script.value
    /\ lastWriter' = c
    /\ calls' = [calls EXCEPT ![c] = OnWriteResolved(@)]
    /\ UNCHANGED <<pageCSS, scrollVars, visibilityVars>>

WriteRejected(c) ==
    /\ calls[c].pc = "writing"
    /\ calls' = [calls EXCEPT ![c] = OnWriteRejected(@)]
    /\ UNCHANGED <<attr, pageCSS, lastWriter, scrollVars, visibilityVars>>

Next ==
    \/ \E p \in Paths : Start(p)
    \/ \E c \in 1..Len(calls) : ReadResolved(c)
    \/ \E c \in 1..Len(calls) : ReadRejected(c)
    \/ \E c \in 1..Len(calls) : StreamData(c)
    \/ \E c \in 1..Len(calls) : StreamError(c)
    \/ \E c \in 1..Len(calls) : StreamClose(c)
    \/ \E c \in 1..Len(calls) : InsertResolved(c)
    \/ \E c \in 1..Len(calls) : InsertRejected(c)
    \/ \E c \in 1..Len(calls) : WriteResolved(c)
    \/ \E c \in 1..Len(calls) : WriteRejected(c)

Spec == Init /\ [][Next]_vars

\* ------------------------------------------------------------------------
\* didScrollIntoViewport (lines 309-326).  threshold is given in quarters
\* (3 is 0.75), which binary floating point represents exactly, so the
\* arithmetic of line 317 is exact.
\* ------------------------------------------------------------------------

\* threshold = 0.75 (line 309), in quarters
defaultThreshold == 3

\* TargetIndex rounded up instead of down.
TargetIndex_ceil(n, t, c) == -((-(4 * n - (4 - t) * c)) \div 4)

\* Line 317: Math.floor(elementList.length - (1 - threshold) * fixedCount)
TargetIndex(n, t, c) == (4 * n - (4 - t) * c) \div 4

\* Lines 312-325: the returned value; elementList[targetIndex - 1] is
\* undefined outside the list, and calling its getBoundingClientRect throws.
ScrollReturn(list, t, c, height) ==
    LET target == TargetIndex(Len(list), t, c)
    IN  IF Len(list) = 0 THEN "undefined"
        ELSE IF target < 1 \/ target > Len(list) THEN "TypeError"
        ELSE IF list[target] <= height THEN "true"
        ELSE "false"

\* The lists are the rows of a page scrolled by some amount: element i's top
\* edge is i rows down, less the scroll offset.
InitScroll ==
    /\ \E n \in 0..MaxElements, s \in 0..MaxScrollTop :
           elementList = [i \in 1..n |-> i - s]
    /\ threshold \in 0..5
    /\ fixedCount \in 0..MaxFixedCount
    /\ clientHeight \in 0..MaxClientHeight
    /\ targetIndex = 0
    /\ scrollResult = "pending"

DidScrollIntoViewport ==
    /\ scrollResult = "pending"
    /\ targetIndex' = IF Len(elementList) = 0 THEN 0
                      ELSE TargetIndex(Len(elementList), threshold, fixedCount)
    /\ scrollResult' = ScrollReturn(elementList, threshold, fixedCount,
                                    clientHeight)
    /\ UNCHANGED <<elementList, threshold, fixedCount, clientHeight,
                   injectorVars, visibilityVars>>

NextScroll == DidScrollIntoViewport

\* elementList.length - (1 - threshold) * fixedCount, times four
TargetTimesFour == 4 * Len(elementList) - (4 - threshold) * fixedCount

InList(i) == i \in 1..Len(elementList)

InView(i) == IF elementList[i] <= clientHeight THEN "true" ELSE "false"

ScrollInit == InitInjector /\ InitScroll /\ IdleVisibility

SpecScroll == ScrollInit /\ [][NextScroll]_vars

\* ------------------------------------------------------------------------
\* setVisibility, show, hide (lines 475-504) on one element, with the event
\* loop's timers: a timer fires once its delay has passed, the timers that
\* are due fire in the order of their deadlines, and those with the same
\* deadline in the order they were set.
\* ------------------------------------------------------------------------

\* ApplyVisibility without the classList.remove of lines 479 and 482.
ApplyVisibility_addOnly(classes, visible) ==
    IF visible THEN classes \cup {"show"} ELSE classes \cup {"hide"}

\* Lines 477-483: the deferred action.
ApplyVisibility(classes, visible) ==
    IF visible THEN (classes \cup {"show"}) \ {"hide"}
    ELSE (classes \cup {"hide"}) \ {"show"}

InitVisibility ==
    /\ classList \in SUBSET {"show", "hide"}
    /\ timers = <<>>
    /\ lastFired = 0
    /\ now = 0

\* Lines 475-486: setVisibility(element, visible, delay) sets the timer.
SetVisibility(visible, delay) ==
    /\ Len(timers) < MaxTimers
    /\ now <= MaxTime
    /\ timers' = Append(timers, [visible |-> visible, delay |-> delay,
                                 deadline |-> now + delay, fired |-> FALSE])
    /\ UNCHANGED <<classList, lastFired, now, injectorVars, scrollVars>>

\* Lines 502-504
Show(delay) == SetVisibility(TRUE, delay)

\* Lines 493-495
Hide(delay) == SetVisibility(FALSE, delay)

Pending(i) == ~timers[i].fired

\* Timer i is the next to fire: none pending is due before it.
FiresNext(i) ==
    /\ Pending(i)
    /\ timers[i].deadline <= now
    /\ \A j \in 1..Len(timers) :
           Pending(j) /\ j # i =>
               \/ timers[j].deadline > timers[i].deadline
               \/ timers[j].deadline = timers[i].deadline /\ j > i

\* Lines 476-485: timer i's callback runs.
TimerFires(i) ==
    /\ FiresNext(i)
    /\ classList' = ApplyVisibility(classList, timers[i].visible)
    /\ timers' = [timers EXCEPT ![i].fired = TRUE]
    /\ lastFired' = i
    /\ UNCHANGED <<now, injectorVars, scrollVars>>

\* Time passes, once the timers that are due have fired.
Tick ==
    /\ \A i \in 1..Len(timers) : Pending(i) => timers[i].deadline > now
    /\ now < MaxTime \/ \E i \in 1..Len(timers) : Pending(i)
    /\ now' = now + 1
    /\ UNCHANGED <<classList, timers, lastFired, injectorVars, scrollVars>>

NextVisibility ==
    \/ \E d \in 0..MaxDelay : Show(d)
    \/ \E d \in 0..MaxDelay : Hide(d)
    \/ \E i \in 1..Len(timers) : TimerFires(i)
    \/ Tick

VisibilityInit == InitInjector /\ IdleScroll /\ InitVisibility

SpecVisibility == VisibilityInit /\ [][NextVisibility]_vars

\* ------------------------------------------------------------------------
\* Properties of the injector
\* ------------------------------------------------------------------------

Range(list) == { list[i] : i \in 1..Len(list) }

Last(list) == list[Len(list)]

\* The paths the registry held when the call read it (none when the
\* attribute was absent or did not parse).
ReadList(call) ==
    IF call.result = Undefined THEN <<>> ELSE JSONparse(call.result).list

\* A path that JSON.stringify and the script's string literal leave alone.
IsPlain(p) ==
    \A i \in 1..Len(p) : p[i] \notin {BACKSLASH, DQUOTE, APOSTROPHE, LF}

Settled(call) == call.pc \in {"done", "crashed"}

\* C1: a call for a path made after an earlier call for that path reported
\* success (and whose registry read resolved) is answered with the "already
\* injected" error only, and reads no file and calls neither the minifier
\* nor insertCSS.
C1_SecondInjectionRejected ==
    \A d \in 1..Len(calls) :
        calls[d].priorOk /\ calls[d].read = "resolved" =>
            /\ calls[d].cb = <<"AlreadyInjected">>
            /\ ~calls[d].opened
            /\ calls[d].insertCalls = 0

\* C2: once calls for pairwise distinct paths have all reported success (and
\* nothing else), the registry attribute parses as a JSON array that holds
\* exactly their paths, each once.
C2_RegistryRoundTrip ==
    ( /\ Len(calls) >= 1
      /\ \A c \in 1..Len(calls) : calls[c].pc = "done" /\ calls[c].cb = <<"ok">>
      /\ \A c, d \in 1..Len(calls) : c # d => calls[c].path # calls[d].path )
    => LET registry == JSONparse(attr)
       IN  /\ registry.ok
           /\ Len(registry.list) = Len(calls)
           /\ \A c \in 1..Len(calls) : Includes(registry.list, calls[c].path)

\* C3: insertCSS is called at most once for each distinct path, whatever the
\* calls and their interleaving.
C3_InsertedOncePerPath ==
    \A p \in Paths :
        Cardinality({ c \in 1..Len(calls) :
                        calls[c].path = p /\ calls[c].insertCalls > 0 }) <= 1

\* C4: a call whose read stream emitted 'error' never calls insertCSS and
\* never writes the registry.
C4_StreamErrorAborts ==
    \A c \in 1..Len(calls) :
        Includes(calls[c].cb, "ReadError") =>
            calls[c].insertCalls = 0 /\ ~calls[c].writeIssued

\* C5: a call that read a registry attribute that is present and is not
\* valid JSON has reported the parse error and nothing else, is finished,
\* created no read stream, called no insertCSS and issued no registry write.
C5_ParseErrorAborts ==
    \A c \in 1..Len(calls) :
        ( /\ calls[c].read = "resolved"
          /\ calls[c].result # Undefined
          /\ ~JSONparse(calls[c].result).ok )
        => /\ calls[c].pc = "done"
           /\ calls[c].cb = <<"SyntaxError">>
           /\ ~calls[c].opened
           /\ calls[c].insertCalls = 0
           /\ ~calls[c].writeIssued

C5_Witness ==
    \E c \in 1..Len(calls) :
        /\ calls[c].read = "resolved"
        /\ calls[c].result # Undefined
        /\ ~JSONparse(calls[c].result).ok
        /\ calls[c].cb = <<"SyntaxError">>

\* C8: the last registry write wins.  The attribute holds what the last
\* writer's script assigned, and when that writer's path and the paths it
\* had read are plain, the registry holds those paths and no others: a path
\* another call registered between the writer's read and its write is lost,
\* though that call reported success.
C8_LastWriteWins ==
    lastWriter # 0 =>
        LET w == calls[lastWriter]
        IN  /\ w.write = "resolved"
            /\ attr = w.script.value
            /\ (IsPlain(w.path) /\ \A x \in Range(ReadList(w)) : IsPlain(x)) =>
                   /\ JSONparse(attr).ok
                   /\ Range(JSONparse(attr).list)
                          = Range(ReadList(w)) \cup {w.path}

\* Two calls for different paths both reported success, both CSS texts are in
\* the page, and the registry holds only one of the two paths.
C8_Witness ==
    /\ Len(calls) = 2
    /\ calls[1].path # calls[2].path
    /\ calls[1].cb = <<"ok">> /\ calls[2].cb = <<"ok">>
    /\ calls[1].result = Undefined /\ calls[2].result = Undefined
    /\ pageCSS[calls[1].path] = 1 /\ pageCSS[calls[2].path] = 1
    /\ JSONparse(attr).ok
    /\ Len(JSONparse(attr).list) = 1

\* The states C9 allows: the registry write is issued only once insertCSS has resolved; success
\* is reported only once the registry write has resolved, and last; a call
\* whose registry write rejected reported that error last and never success,
\* its CSS is in the page, and the rejection left the attribute and the page
\* as they were; and the guard rejects a call only if a call for the same
\* path had its registry write resolve.
C9_State ==
    \A c \in 1..Len(calls) :
        LET call == calls[c]
        IN  /\ call.writeIssued => call.insert = "resolved"
            /\ call.write # "none" => call.writeIssued
            /\ Succeeded(call) =>
                   /\ call.write = "resolved"
                   /\ Last(call.cb) = "ok"
                   /\ call.styles # <<>>
            /\ call.write = "rejected" =>
                   /\ Last(call.cb) = "RemoteExecutionError"
                   /\ ~Succeeded(call)
                   /\ call.insert = "resolved"
                   /\ pageCSS[call.path] >= 1
            /\ Includes(call.cb, "AlreadyInjected") =>
                   \E e \in 1..Len(calls) :
                       /\ e # c
                       /\ calls[e].path = call.path
                       /\ calls[e].write = "resolved"

\* The steps C9 allows: a registry write that rejects changes neither the
\* attribute nor the page.
C9_RejectedWriteChangesNothing ==
    \A c \in 1..Len(calls) :
        calls[c].write = "none" /\ calls'[c].write = "rejected" =>
            attr' = attr /\ pageCSS' = pageCSS

\* C9: in every state the ordering and the outcomes above hold, and every
\* step in which a registry write rejects leaves the attribute and the page
\* unchanged.
C9_WriteOrdering == [](C9_State) /\ [][C9_RejectedWriteChangesNothing]_vars

\* A call's registry write rejected, and a later call for the same path got
\* past the guard.
C9_Witness ==
    \E c, d \in 1..Len(calls) :
        /\ c < d
        /\ calls[c].path = calls[d].path
        /\ calls[c].write = "rejected"
        /\ calls[c].insert = "resolved"
        /\ calls[d].read = "resolved"
        /\ calls[d].opened

\* C10: a call that has nothing pending any more has invoked its callback
\* exactly once.
C10_CallbackExactlyOnce ==
    \A c \in 1..Len(calls) : Settled(calls[c]) => Len(calls[c].cb) = 1

\* ------------------------------------------------------------------------
\* Properties of show / hide
\* ------------------------------------------------------------------------

Shown == "show" \in classList /\ "hide" \notin classList

Hidden == "hide" \in classList /\ "show" \notin classList

AllFired == \A i \in 1..Len(timers) : timers[i].fired

\* Timer i is the last to fire of all the timers set: it has the greatest
\* deadline, and is the latest set of those that have it.
FiresLast(i) ==
    \A j \in 1..Len(timers) :
        j # i =>
            \/ timers[j].deadline < timers[i].deadline
            \/ timers[j].deadline = timers[i].deadline /\ j < i

\* C7 as stated: after show(element, d) followed by hide(element, d'), once
\* both timers have fired the element is hidden, whatever the delays.
C7_HiddenAfterShowThenHide ==
    ( /\ Len(timers) = 2
      /\ timers[1].visible /\ ~timers[2].visible
      /\ AllFired )
    => Hidden

\* C7, amended: once a deferred action has fired the element is in the state
\* of the action that fired last (shown after a show, hidden after a hide,
\* never both); once all the timers set have fired it is in the state of
\* the timer with the greatest deadline; so after show(element, d) followed
\* by hide(element, d') it ends hidden when the hide timer's deadline is not
\* before the show timer's, and shown when it is before.
C7_LastFiredDecides ==
    /\ lastFired # 0 =>
           /\ timers[lastFired].fired
           /\ IF timers[lastFired].visible THEN Shown ELSE Hidden
    /\ \A i \in 1..Len(timers) :
           AllFired /\ FiresLast(i) =>
               IF timers[i].visible THEN Shown ELSE Hidden
    /\ ( /\ Len(timers) = 2
         /\ timers[1].visible /\ ~timers[2].visible
         /\ AllFired )
       => IF timers[2].deadline >= timers[1].deadline THEN Hidden ELSE Shown

\* show then hide, the hide timer due no earlier than the show timer, both
\* fired, on an element that started with both classes: it is hidden.
C7_Witness ==
    /\ Len(timers) = 2
    /\ timers[1].visible /\ ~timers[2].visible
    /\ timers[1].delay > timers[2].delay
    /\ timers[2].deadline >= timers[1].deadline
    /\ AllFired
    /\ Hidden

====
